---- MODULE Spec2Model ----
(***************************************************************************)
(* Model of the protein-design scripts:                                    *)
(*   protein_improvement_agent.py  ContactSelect, ProteinImprovementAgent  *)
(*   protein_design_system.py      ProteinDesignSystem                     *)
(* A structure file is a sequence of residues in file order; each residue  *)
(* carries its chain identifier, sequence number, name and atom positions. *)
(* Coordinates and cutoffs are integers (angstroms).                       *)
(***************************************************************************)
EXTENDS Integers, Sequences, FiniteSets, TLC

\* ---------------------------------------------------------------- bounds
MaxResidues == 3
MaxNamedResidues == 2
MaxTokens == 2
MaxLines == 2
MaxComLines == 2

\* ---------------------------------------------------------------- inputs
Chains == {"A", "B"}
ResNums == {1, 2}
P0 == <<0, 0, 0>>
P1 == <<3, 0, 0>>
\* Atom positions of one residue, in file order.
AtomLists == {<<P0>>, <<P1>>, <<P0, P1>>}
NamedAtomLists == {<<P0>>}
Cutoffs == {0, 2, 5}
GeomNames == {"ALA"}
ResNames == {"ALA", "GLY", "SER", "LYS", "ARG", "TRP"}
None == "None"
KeyError == "KeyError"

\* Target names typed at the prompt, and their str.lower().
Targets == {"CD20", "cd20", "EGFR"}
Lower(t) == CASE t = "CD20" -> "cd20" [] t = "EGFR" -> "egfr" [] OTHER -> t

\* Words (maximal runs of \w characters) an agent answer may contain, with
\* their spelling.
Tokens == {"6VJA", "2ABC", "0VJA", "6VJAB", "1_AB"}
TokenChars(t) ==
    CASE t = "6VJA" -> <<"6", "V", "J", "A">>
      [] t = "2ABC" -> <<"2", "A", "B", "C">>
      [] t = "0VJA" -> <<"0", "V", "J", "A">>
      [] t = "6VJAB" -> <<"6", "V", "J", "A", "B">>
      [] t = "1_AB" -> <<"1", "_", "A", "B">>
Digits19 == {"1", "2", "3", "4", "5", "6", "7", "8", "9"}
AlNum == Digits19 \cup {"0", "A", "B", "C", "J", "V"}
Responses == UNION {[1..n -> Tokens] : n \in 0..MaxTokens}

\* os.path.join(tempfile.gettempdir(), f"{pdb_id}.pdb")
PathOf(id) == CASE id = "6VJA" -> "/tmp/6VJA.pdb" [] id = "2ABC" -> "/tmp/2ABC.pdb"

\* Lines of a downloaded file (each long enough to have column 21): the
\* record tag and the character in column 21.
FileLines ==
    {[tag |-> "ATOM", chain |-> "A"], [tag |-> "HETATM", chain |-> "B"],
     [tag |-> "REMARK", chain |-> "A"]}
FileTexts == UNION {[1..n -> FileLines] : n \in 0..MaxLines}

\* Lines of the agent's chain description: "key: description" or no colon.
DescA == [colon |-> TRUE, key |-> "A", desc |-> "Target protein"]
DescZ == [colon |-> TRUE, key |-> "Z", desc |-> "Target protein"]
NoColon == [colon |-> FALSE, key |-> "", desc |-> ""]
DescTexts == {<<>>, <<DescA>>, <<DescZ>>, <<NoColon>>, <<NoColon, DescA, DescZ>>}

\* f"Chain {chain}"
GenericDesc(c) == CASE c = "A" -> "Chain A" [] c = "B" -> "Chain B" [] OTHER -> "Chain ?"

\* Code-point order of the one-character chain identifiers (Python str <).
Ord(c) == CASE c = "A" -> 65 [] c = "B" -> 66 [] OTHER -> 67

\* Residue records: chain identifier, sequence number (residue.id[1]),
\* residue name and the positions of the residue's atoms in file order.
Residues(names, atomLists) ==
    [chain : Chains, num : ResNums, resname : names, atoms : atomLists]

ResidueKey(r) == <<r.chain, r.num>>

\* Python tuple order on (chain, number) keys.
KeyLessMutDescending(x, y) ==
    Ord(x[1]) > Ord(y[1]) \/ (x[1] = y[1] /\ x[2] > y[2])
KeyLess(x, y) ==
    Ord(x[1]) < Ord(y[1]) \/ (x[1] = y[1] /\ x[2] < y[2])

\* Files: residues listed by chain and then by sequence number, sequence
\* numbers unique within a chain.
OrderedFiles(names, atomLists, maxResidues) ==
    {f \in UNION {[1..n -> Residues(names, atomLists)] : n \in 0..maxResidues} :
        \A i, j \in DOMAIN f :
            i < j => (Ord(f[i].chain) < Ord(f[j].chain)
                      \/ (f[i].chain = f[j].chain /\ f[i].num < f[j].num))}

VARIABLES
    pdb_file,            \* content of the file at ProteinImprovementAgent.pdb_file
    structure,           \* ProteinImprovementAgent.structure (None before analysis)
    interface_residues,  \* ProteinImprovementAgent.interface_residues
    out_file,            \* whether save_interface_pdb wrote its output file, and the content
    target,              \* ProteinDesignSystem.target
    pdb_id,              \* ProteinDesignSystem.pdb_id
    pdb_file_path,       \* ProteinDesignSystem.pdb_file_path
    chain_info,          \* ProteinDesignSystem.chain_info (chain -> description)
    disk_text,           \* text of the most recently downloaded file
    com_file,            \* the file given to calculate_chain_center_of_mass
    pc,                  \* position of the running script ("caller": direct calls)
    locals,              \* local variables of the running script
    last_response,       \* the agent answer the last search_target call received
    call,                \* the last operation and its arguments
    ret                  \* the value the last operation returned (or the error it raised)

agentvars == <<pdb_file, structure, interface_residues, out_file>>
sysvars == <<target, pdb_id, pdb_file_path, chain_info, disk_text>>
runvars == <<com_file, pc, locals, last_response>>
vars == <<agentvars, sysvars, runvars, call, ret>>

\* ------------------------------------------------------- Bio.PDB structure
\* Chains in order of first appearance in the file.
RECURSIVE ChainOrder(_, _)
ChainOrder(f, seen) ==
    IF f = <<>> THEN <<>>
    ELSE IF Head(f).chain \in seen THEN ChainOrder(Tail(f), seen)
    ELSE <<Head(f).chain>> \o ChainOrder(Tail(f), seen \cup {Head(f).chain})

RECURSIVE ConcatChains(_, _)
ConcatChains(f, order) ==
    IF order = <<>> THEN <<>>
    ELSE SelectSeq(f, LAMBDA r : r.chain = Head(order)) \o ConcatChains(f, Tail(order))

\* PDBParser.get_structure: residues grouped under their chain, chains in
\* order of first appearance, residues of a chain in file order.
get_structure(f) == ConcatChains(f, ChainOrder(f, {}))

\* The atoms of one residue, each with its parent residue and chain.
ResidueAtoms(r) ==
    [i \in 1..Len(r.atoms) |-> [chain |-> r.chain, num |-> r.num, coord |-> r.atoms[i]]]

\* Structure.get_atoms(): all atoms in structure order.
RECURSIVE get_atoms(_)
get_atoms(s) ==
    IF s = <<>> THEN <<>> ELSE ResidueAtoms(Head(s)) \o get_atoms(Tail(s))

\* ------------------------------------------------------------- geometry
Dot(d) == d[1] * d[1] + d[2] * d[2] + d[3] * d[3]

\* Least n with n*n >= k: sqrt(k) <= c iff CeilSqrt(k) <= c for an integer c.
CeilSqrt(k) == CHOOSE n \in 0..k : n * n >= k /\ \A m \in 0..(n - 1) : m * m < k

\* Atom.__sub__: the Euclidean distance between two atoms.
AtomDistance(a, b) ==
    CeilSqrt(Dot(<<a.coord[1] - b.coord[1], a.coord[2] - b.coord[2], a.coord[3] - b.coord[3]>>))

\* The contact test of find_contacts.
InContactMutStrict(a, b, cutoff) == AtomDistance(a, b) < cutoff
InContactMutReversed(a, b, cutoff) == AtomDistance(a, b) >= cutoff
InContact(a, b, cutoff) == AtomDistance(a, b) <= cutoff

\* -------------------------------------------------------- ContactSelect
\* find_contacts on a ContactSelect(chain_a, chain_b, cutoff) whose
\* contact_residues set currently holds cr: the all-pairs loop adds the keys
\* of both residues of every atom pair within the cutoff and returns the set.
find_contactsMutOnlyA(cr, s, chain_a, chain_b, cutoff) ==
    LET atoms == get_atoms(s)
        atoms_a == SelectSeq(atoms, LAMBDA a : a.chain = chain_a)
        atoms_b == SelectSeq(atoms, LAMBDA a : a.chain = chain_b)
    IN cr \cup UNION {IF InContact(atoms_a[i], atoms_b[j], cutoff)
                      THEN {<<chain_a, atoms_a[i].num>>}
                      ELSE {} : i \in DOMAIN atoms_a, j \in DOMAIN atoms_b}
find_contacts(cr, s, chain_a, chain_b, cutoff) ==
    LET atoms == get_atoms(s)
        atoms_a == SelectSeq(atoms, LAMBDA a : a.chain = chain_a)
        atoms_b == SelectSeq(atoms, LAMBDA a : a.chain = chain_b)
    IN cr \cup UNION {IF InContact(atoms_a[i], atoms_b[j], cutoff)
                      THEN {<<chain_a, atoms_a[i].num>>, <<chain_b, atoms_b[j].num>>}
                      ELSE {} : i \in DOMAIN atoms_a, j \in DOMAIN atoms_b}

\* accept_residue: the residue's (chain, number) key is in contact_residues.
accept_residue(cr, r) == ResidueKey(r) \in cr

\* ------------------------------------------------------ Python list / set
\* list(a_set): the elements once each, in any iteration order.
RECURSIVE ListsOf(_)
ListsOf(S) ==
    IF S = {} THEN {<<>>}
    ELSE UNION {{<<x>> \o l : l \in ListsOf(S \ {x})} : x \in S}

RECURSIVE Insert(_, _)
Insert(x, sorted) ==
    IF sorted = <<>> THEN <<x>>
    ELSE IF KeyLess(x, Head(sorted)) THEN <<x>> \o sorted
    ELSE <<Head(sorted)>> \o Insert(x, Tail(sorted))

\* list.sort() on a list of (chain, number) tuples.
RECURSIVE ListSort(_)
ListSort(l) == IF l = <<>> THEN <<>> ELSE Insert(Head(l), ListSort(Tail(l)))

SeqToSet(l) == {l[i] : i \in DOMAIN l}

\* Return values: a value, Python's None, or the exception raised.
Value(v) == [tag |-> "value", val |-> v]
NoValue == [tag |-> None, val |-> <<>>]
Raised(e) == [tag |-> e, val |-> <<>>]

\* No script is running and no center-of-mass file is given.
NoFile == [exists |-> FALSE, lines |-> <<>>]
NoLocals == [target |-> NoValue, rcsb_link |-> NoValue, pdb_file |-> NoValue,
             suggestions |-> NoValue]
IdleRun ==
    /\ com_file = NoFile
    /\ pc = "caller"
    /\ locals = NoLocals
    /\ last_response = <<>>

\* ----------------------------------------------- ProteinImprovementAgent
NotLoaded == [loaded |-> FALSE, residues |-> <<>>]

\* ProteinImprovementAgent.__init__ over a file of the given family.
AgentInit(files) ==
    /\ pdb_file \in files
    /\ target = None
    /\ pdb_id = None
    /\ pdb_file_path = None
    /\ chain_info = <<>>
    /\ disk_text = <<>>
    /\ IdleRun
    /\ structure = NotLoaded
    /\ interface_residues = <<>>
    /\ out_file = [written |-> FALSE, content |-> <<>>]
    /\ call = [op |-> "init"]
    /\ ret = NoValue

analyze_interface(antibody_chain, target_chain, cutoff) ==
    LET s == get_structure(pdb_file)
        contacts == find_contacts({}, s, antibody_chain, target_chain, cutoff)
    IN /\ structure' = [loaded |-> TRUE, residues |-> s]
       /\ interface_residues' \in {ListSort(l) : l \in ListsOf(contacts)}
       /\ ret' = Value(interface_residues')
       /\ call' = [op |-> "analyze_interface", chain_a |-> antibody_chain,
                   chain_b |-> target_chain, cutoff |-> cutoff]
       /\ UNCHANGED <<pdb_file, out_file, sysvars>>

\* PDBIO.save(output_file, select): the accepted residues with all their
\* atoms, in structure order (a chain without accepted residues is omitted).
PDBIOSave(s, cr) == SelectSeq(s, LAMBDA r : accept_residue(cr, r))

save_interface_pdb ==
    /\ call' = [op |-> "save_interface_pdb"]
    /\ UNCHANGED sysvars
    /\ IF ~structure.loaded \/ structure.residues = <<>> \/ interface_residues = <<>>
       THEN /\ ret' = NoValue
            /\ UNCHANGED <<pdb_file, structure, interface_residues, out_file>>
       ELSE LET chains == {k[1] : k \in SeqToSet(interface_residues)}
            IN IF Cardinality(chains) < 2
               THEN \* the second chains.pop() finds the set empty
                    /\ ret' = Raised(KeyError)
                    /\ UNCHANGED <<pdb_file, structure, interface_residues, out_file>>
               ELSE /\ out_file' = [written |-> TRUE,
                                    content |-> PDBIOSave(structure.residues,
                                                          SeqToSet(interface_residues))]
                    /\ ret' = Value(<<"output_file">>)
                    /\ UNCHANGED <<pdb_file, structure, interface_residues>>

\* The rule table of suggest_mutations: the substitution for a residue name.
SuggestionForMutNoSer(res_name) ==
    IF res_name \in {"ALA", "GLY"} THEN <<"TYR">>
    ELSE IF res_name \in {"LYS", "ARG"} THEN <<"GLU">>
    ELSE <<>>
SuggestionFor(res_name) ==
    IF res_name \in {"ALA", "GLY", "SER"} THEN <<"TYR">>
    ELSE IF res_name \in {"LYS", "ARG"} THEN <<"GLU">>
    ELSE <<>>

\* The inner loop of suggest_mutations for one interface key: the first
\* residue of the chain with that number decides, then the loop breaks.
SuggestOne(s, chain, res_id) ==
    LET matches == SelectSeq(s, LAMBDA r : r.chain = chain /\ r.num = res_id)
    IN IF matches = <<>> THEN <<>>
       ELSE LET res_name == Head(matches).resname
                sub == SuggestionFor(res_name)
            IN IF sub = <<>> THEN <<>>
               ELSE <<[chain |-> chain, position |-> res_id,
                       original |-> res_name, suggestion |-> sub[1]]>>

RECURSIVE SuggestAll(_, _)
SuggestAll(s, antibody_residues) ==
    IF antibody_residues = <<>> THEN <<>>
    ELSE SuggestOne(s, Head(antibody_residues)[1], Head(antibody_residues)[2])
         \o SuggestAll(s, Tail(antibody_residues))

suggest_mutations(antibody_chain) ==
    LET antibody_residues ==
            SelectSeq(interface_residues, LAMBDA k : k[1] = antibody_chain)
    IN /\ call' = [op |-> "suggest_mutations", chain |-> antibody_chain]
       /\ ret' = IF antibody_residues = <<>> THEN Value(<<>>)
                 ELSE Value(SuggestAll(structure.residues, antibody_residues))
       /\ UNCHANGED <<agentvars, sysvars>>

\* visualize_mutation: the script file is written, PyMOL is run, and the
\* result says whether PyMOL ran.
visualize_mutation(mutation, pymol_ok) ==
    /\ call' = [op |-> "visualize_mutation", mutation |-> mutation,
                io |-> {"file_write", "subprocess"}]
    /\ ret' = Value(<<pymol_ok>>)
    /\ UNCHANGED <<agentvars, sysvars>>

\* --------------------------------------------------- ProteinDesignSystem
\* ProteinDesignSystem.__init__ (the agent object is not in use).
SystemInit ==
    /\ target = None
    /\ pdb_id = None
    /\ pdb_file_path = None
    /\ chain_info = <<>>
    /\ disk_text = <<>>
    /\ IdleRun
    /\ pdb_file = <<>>
    /\ structure = NotLoaded
    /\ interface_residues = <<>>
    /\ out_file = [written |-> FALSE, content |-> <<>>]
    /\ call = [op |-> "init"]
    /\ ret = NoValue

ask_target(answer) ==
    /\ target' = answer
    /\ call' = [op |-> "ask_target"]
    /\ ret' = Value(<<answer>>)
    /\ UNCHANGED <<pdb_id, pdb_file_path, chain_info, disk_text, agentvars>>

\* re.search(r'\b[1-9][A-Za-z0-9]{3}\b', result) on one word.
IsPdbId(t) ==
    LET c == TokenChars(t)
    IN /\ Len(c) = 4
       /\ c[1] \in Digits19
       /\ \A i \in 2..4 : c[i] \in AlNum

RECURSIVE FirstMatch(_)
FirstMatch(response) ==
    IF response = <<>> THEN <<>>
    ELSE IF IsPdbId(Head(response)) THEN <<Head(response)>>
    ELSE FirstMatch(Tail(response))

Link(id) == <<"https://www.rcsb.org/structure/", id>>

search_targetMutResets(agent_ok, response) ==
    /\ call' = [op |-> "search_target"]
    /\ UNCHANGED <<target, pdb_file_path, chain_info, disk_text, agentvars>>
    /\ IF ~agent_ok
       THEN ret' = Raised("AgentError") /\ pdb_id' = pdb_id
       ELSE LET m == FirstMatch(response)
            IN IF m # <<>>
               THEN pdb_id' = m[1] /\ ret' = Value(Link(m[1]))
               ELSE IF target = None
               THEN ret' = Raised("AttributeError") /\ pdb_id' = pdb_id
               ELSE IF Lower(target) = "cd20"
               THEN pdb_id' = "6VJA" /\ ret' = Value(Link("6VJA"))
               ELSE ret' = NoValue /\ pdb_id' = None
search_target(agent_ok, response) ==
    /\ call' = [op |-> "search_target"]
    /\ UNCHANGED <<target, pdb_file_path, chain_info, disk_text, agentvars>>
    /\ IF ~agent_ok
       THEN ret' = Raised("AgentError") /\ pdb_id' = pdb_id
       ELSE LET m == FirstMatch(response)
            IN IF m # <<>>
               THEN pdb_id' = m[1] /\ ret' = Value(Link(m[1]))
               ELSE IF target = None
               THEN ret' = Raised("AttributeError") /\ pdb_id' = pdb_id
               ELSE IF Lower(target) = "cd20"
               THEN pdb_id' = "6VJA" /\ ret' = Value(Link("6VJA"))
               ELSE ret' = NoValue /\ pdb_id' = pdb_id

\* The chain identifiers collected by the line loop of
\* _extract_chain_info_simple.
RECURSIVE ScanChains(_)
ScanChains(text) ==
    IF text = <<>> THEN {}
    ELSE (IF Head(text).tag \in {"ATOM", "HETATM"}
          THEN {Head(text).chain} ELSE {})
         \cup ScanChains(Tail(text))

\* self.chain_info[chain] = desc
Put(info, key, desc) ==
    [k \in DOMAIN info \cup {key} |-> IF k = key THEN desc ELSE info[k]]

\* The loop over the lines of the agent's answer.
RECURSIVE ParseDescriptions(_, _)
ParseDescriptions(info, lines) ==
    IF lines = <<>> THEN info
    ELSE ParseDescriptions(IF Head(lines).colon
                           THEN Put(info, Head(lines).key, Head(lines).desc)
                           ELSE info,
                           Tail(lines))

\* "Add any chains that weren't described".
AddUndescribed(info, chains) ==
    [k \in DOMAIN info \cup chains |-> IF k \in DOMAIN info THEN info[k] ELSE GenericDesc(k)]

GenericInfo(chains) ==
    IF chains # {} THEN [k \in chains |-> GenericDesc(k)] ELSE [k \in {"A"} |-> "Chain A"]

\* _extract_chain_info_simple on the file just written: the new chain_info.
extract_chain_info_simple(info, text, agent_ok, description) ==
    LET chains == ScanChains(text)
    IN IF chains # {}
       THEN IF agent_ok
            THEN AddUndescribed(ParseDescriptions(info, description), chains)
            ELSE GenericInfo(chains)
       ELSE [k \in {"A"} |-> "Chain A"]

\* url = f"https://files.rcsb.org/download/{self.pdb_id}.pdb"
Url(id) == <<"https://files.rcsb.org/download/", id, ".pdb">>

\* What a call of download_pdb does outside the object: the request it sends
\* and the file it opens for writing.
DownloadIO(outcome) ==
    IF pdb_id = None THEN {}
    ELSE IF outcome \in {"get_fails", "status_404"} THEN {"http_get"}
    ELSE {"http_get", "file_write"}

download_pdb(outcome, text, agent_ok, description) ==
    /\ call' = [op |-> "download_pdb", io |-> DownloadIO(outcome),
                url |-> IF pdb_id = None THEN <<>> ELSE Url(pdb_id)]
    /\ UNCHANGED <<target, pdb_id, agentvars>>
    /\ IF pdb_id = None
       THEN ret' = NoValue /\ UNCHANGED <<pdb_file_path, chain_info, disk_text>>
       ELSE CASE outcome = "get_fails" ->
                   ret' = NoValue /\ UNCHANGED <<pdb_file_path, chain_info, disk_text>>
              [] outcome = "status_404" ->
                   ret' = NoValue /\ UNCHANGED <<pdb_file_path, chain_info, disk_text>>
              [] outcome = "write_fails" ->
                   /\ pdb_file_path' = PathOf(pdb_id)
                   /\ ret' = NoValue
                   /\ UNCHANGED <<chain_info, disk_text>>
              [] outcome = "status_200" ->
                   /\ pdb_file_path' = PathOf(pdb_id)
                   /\ disk_text' = text
                   /\ chain_info' = extract_chain_info_simple(chain_info, text,
                                                               agent_ok, description)
                   /\ ret' = Value(<<PathOf(pdb_id)>>)

visualize_structure(pymol_ok) ==
    /\ call' = [op |-> "visualize_structure",
                io |-> IF pdb_file_path = None THEN {}
                       ELSE {"file_write", "subprocess"}]
    /\ ret' = IF pdb_file_path = None THEN Value(<<FALSE>>) ELSE Value(<<pymol_ok>>)
    /\ UNCHANGED <<sysvars, agentvars>>

AskStep == \E t \in Targets : ask_target(t) /\ UNCHANGED runvars
SearchStep ==
    \/ search_target(FALSE, <<>>) /\ UNCHANGED runvars
    \/ \E r \in Responses : search_target(TRUE, r) /\ UNCHANGED runvars
DownloadStep ==
    \/ \E o \in {"get_fails", "status_404", "write_fails"} :
          download_pdb(o, <<>>, TRUE, <<>>) /\ UNCHANGED runvars
    \/ \E t \in FileTexts :
          \/ download_pdb("status_200", t, FALSE, <<>>) /\ UNCHANGED runvars
          \/ \E d \in DescTexts : download_pdb("status_200", t, TRUE, d) /\ UNCHANGED runvars
VisualizeStep == \E ok \in BOOLEAN : visualize_structure(ok) /\ UNCHANGED runvars

NextSystem == AskStep \/ SearchStep \/ DownloadStep \/ VisualizeStep
SpecSystem == SystemInit /\ [][NextSystem]_vars

AnalyzeStep ==
    \E a \in Chains, b \in Chains, c \in Cutoffs :
        analyze_interface(a, b, c) /\ UNCHANGED runvars
SaveStep == save_interface_pdb /\ UNCHANGED runvars
SuggestStep == \E a \in Chains : suggest_mutations(a) /\ UNCHANGED runvars

Init == AgentInit(OrderedFiles(GeomNames, AtomLists, MaxResidues))
Next == AnalyzeStep \/ SaveStep \/ SuggestStep
Spec == Init /\ [][Next]_vars

\* The same agent over files that vary the residue names.
InitNames == AgentInit(OrderedFiles(ResNames, NamedAtomLists, MaxNamedResidues))
SpecNames == InitNames /\ [][Next]_vars

\* Searches whose agent answer is kept for inspection, and downloads of an
\* empty file, by a caller that follows no script.
RecordedSearch ==
    \/ search_target(FALSE, <<>>)
          /\ last_response' = <<>> /\ UNCHANGED <<com_file, pc, locals>>
    \/ \E r \in Responses :
          search_target(TRUE, r)
             /\ last_response' = r /\ UNCHANGED <<com_file, pc, locals>>
PlainDownload ==
    \E o \in {"get_fails", "status_404", "write_fails", "status_200"} :
        download_pdb(o, <<>>, FALSE, <<>>) /\ UNCHANGED runvars
NextSearch == AskStep \/ RecordedSearch \/ PlainDownload
SpecSearch == SystemInit /\ [][NextSearch]_vars

\* ------------------------------------------------------------ the scripts
\* Python truth of a returned link, path or list, as the scripts' "if x:"
\* tests it: None and the empty list are false.
TruthyMutAlways(v) == TRUE
Truthy(v) == v.tag = "value" /\ Len(v.val) > 0

\* protein_design_system.main: pc is the statement the script is about to
\* run, locals holds the values the script has bound so far.
MainStart ==
    /\ pc = "main"
    /\ \E api_key \in BOOLEAN : pc' = IF api_key THEN "ask_target" ELSE "done"
    /\ UNCHANGED <<agentvars, sysvars, com_file, locals, last_response, call, ret>>
MainAsk ==
    /\ pc = "ask_target"
    /\ \E answer \in Targets \cup {""} :
          /\ ask_target(answer)
          /\ pc' = IF answer # "" THEN "search_target" ELSE "done"
    /\ locals' = [locals EXCEPT !.target = ret']
    /\ UNCHANGED <<com_file, last_response>>
MainSearch ==
    /\ pc = "search_target"
    /\ \/ search_target(FALSE, <<>>)
       \/ \E r \in Responses : search_target(TRUE, r)
    /\ locals' = [locals EXCEPT !.rcsb_link = ret']
    /\ pc' = IF ret'.tag \notin {"value", None} THEN "done"
             ELSE IF Truthy(ret') THEN "download_pdb" ELSE "done"
    /\ UNCHANGED <<com_file, last_response>>
MainDownload ==
    /\ pc = "download_pdb"
    /\ \/ \E o \in {"get_fails", "status_404", "write_fails"} :
             download_pdb(o, <<>>, TRUE, <<>>)
       \/ \E t \in FileTexts :
             \/ download_pdb("status_200", t, FALSE, <<>>)
             \/ \E d \in DescTexts : download_pdb("status_200", t, TRUE, d)
    /\ locals' = [locals EXCEPT !.pdb_file = ret']
    /\ pc' = IF Truthy(ret') THEN "visualize_structure" ELSE "done"
    /\ UNCHANGED <<com_file, last_response>>
MainVisualize ==
    /\ pc = "visualize_structure"
    /\ \E ok \in BOOLEAN : visualize_structure(ok)
    /\ pc' = "done"
    /\ UNCHANGED <<com_file, locals, last_response>>

\* protein_improvement_agent.main, called with a file argument; the interface
\* is analyzed with the default cutoff.
DefaultCutoff == 5
LowerAnswer(a) == CASE a = "Y" -> "y" [] OTHER -> a
AgentMainAnalyze ==
    /\ pc = "agent_main"
    /\ \E antibody_chain \in Chains, target_chain \in Chains :
          analyze_interface(antibody_chain, target_chain, DefaultCutoff)
    /\ pc' = "suggest_mutations"
    /\ UNCHANGED <<com_file, locals, last_response>>
AgentMainSuggest ==
    /\ pc = "suggest_mutations"
    /\ suggest_mutations(call.chain_a)
    /\ locals' = [locals EXCEPT !.suggestions = ret']
    /\ \E answer \in {"y", "Y", "n"} :
          pc' = IF Truthy(ret') /\ LowerAnswer(answer) = "y"
                THEN "visualize_mutation" ELSE "done"
    /\ UNCHANGED <<com_file, last_response>>
AgentMainVisualize ==
    /\ pc = "visualize_mutation"
    /\ IF locals.suggestions.val = <<>>
       THEN /\ call' = [op |-> "suggestions[0]"]
            /\ ret' = Raised("IndexError")
            /\ UNCHANGED <<agentvars, sysvars>>
       ELSE \E ok \in BOOLEAN : visualize_mutation(locals.suggestions.val[1], ok)
    /\ pc' = "done"
    /\ UNCHANGED <<com_file, locals, last_response>>

\* test_agent_system: the import of AgentSystem from protein_design_system
\* fails, the module has no such name, so the script ends before
\* test_with_cd20 is defined.
TestImport ==
    /\ pc = "test_import"
    /\ pc' = "done"
    /\ call' = [op |-> "import"]
    /\ ret' = Raised("ImportError")
    /\ UNCHANGED <<agentvars, sysvars, com_file, locals, last_response>>

\* Calls of the ProteinDesignSystem methods by a caller that follows no
\* script; the agent that describes the chains is not available.
CallerDownload ==
    \/ \E o \in {"get_fails", "status_404", "write_fails"} :
          download_pdb(o, <<>>, FALSE, <<>>) /\ UNCHANGED runvars
    \/ \E t \in FileTexts :
          download_pdb("status_200", t, FALSE, <<>>) /\ UNCHANGED runvars
CallerStep ==
    /\ pc = "caller"
    /\ (AskStep \/ SearchStep \/ CallerDownload \/ VisualizeStep)

InitRuns ==
    /\ pc \in {"caller", "main", "agent_main", "test_import"}
    /\ pdb_file \in IF pc = "agent_main"
                    THEN OrderedFiles(ResNames, NamedAtomLists, MaxNamedResidues)
                    ELSE {<<>>}
    /\ target = None /\ pdb_id = None /\ pdb_file_path = None
    /\ chain_info = <<>> /\ disk_text = <<>>
    /\ com_file = NoFile /\ locals = NoLocals /\ last_response = <<>>
    /\ structure = NotLoaded /\ interface_residues = <<>>
    /\ out_file = [written |-> FALSE, content |-> <<>>]
    /\ call = [op |-> "init"] /\ ret = NoValue
NextRuns ==
    \/ CallerStep
    \/ MainStart \/ MainAsk \/ MainSearch \/ MainDownload \/ MainVisualize
    \/ AgentMainAnalyze \/ AgentMainSuggest \/ AgentMainVisualize
    \/ TestImport
SpecRuns == InitRuns /\ [][NextRuns]_vars

\* ------------------------------------------ calculate_chain_center_of_mass
\* ATOMIC_MASSES.get(element, 12.011), in thousandths of a mass unit.
DefaultMass == 12011
ATOMIC_MASSES(element) ==
    CASE element = "H" -> 1008
      [] element = "C" -> 12011
      [] element = "N" -> 14007
      [] element = "O" -> 15999
      [] element = "P" -> 30974
      [] element = "S" -> 32065
      [] OTHER -> DefaultMass

\* str.upper() on the element strings in use.
Upper(e) == CASE e = "s" -> "S" [] OTHER -> e

\* The first character of the stripped atom-name field.
FirstChar(name) ==
    CASE name = "CA" -> "C" [] name = "1HB" -> "1" [] name = "SG" -> "S"
      [] name = "FE" -> "F" [] OTHER -> name

\* Lines of a center-of-mass input file: record tag, chain (column 21),
\* stripped element field (columns 76-78), stripped atom-name field
\* (columns 12-16) and the coordinates (<<>>: not parseable as numbers).
ComLine(tag, chain, element, name, coord) ==
    [tag |-> tag, chain |-> chain, element |-> element, name |-> name, coord |-> coord]
ComLines ==
    {ComLine("ATOM", "A", "N", "N", <<P0>>),
     ComLine("ATOM", "A", "", "CA", <<P1>>),
     ComLine("ATOM", "A", "FE", "FE", <<P0>>),
     ComLine("ATOM", "A", "s", "SG", <<P1>>),
     ComLine("ATOM", "A", "", "1HB", <<P0>>),
     ComLine("ATOM", "A", "", "", <<P0>>),
     ComLine("ATOM", "A", "C", "CA", <<>>),
     ComLine("ATOM", "B", "O", "O", <<P1>>),
     ComLine("ATOM", "B", "", "", <<P0>>),
     ComLine("HETATM", "A", "O", "O", <<P0>>)}
ComFiles ==
    {NoFile} \cup {[exists |-> TRUE, lines |-> l] :
                      l \in UNION {[1..n -> ComLines] : n \in 0..MaxComLines}}

EmptyError == "ValueError: No atoms found"
FloatError == "ValueError: could not convert string to float"

\* The line loop: the coordinates and masses collected for the chain, or the
\* exception the first failing line raises.
RECURSIVE ReadChain(_, _, _)
ReadChain(lines, chain_id, acc) ==
    IF lines = <<>> THEN acc
    ELSE LET line == Head(lines)
         IN IF line.tag # "ATOM" \/ line.chain # chain_id
            THEN ReadChain(Tail(lines), chain_id, acc)
            ELSE IF line.element = "" /\ line.name = ""
            THEN [acc EXCEPT !.error = "IndexError"]
            ELSE LET element == IF line.element # "" THEN line.element
                                ELSE FirstChar(line.name)
                     mass == ATOMIC_MASSES(Upper(element))
                 IN IF line.coord = <<>>
                    THEN [acc EXCEPT !.error = FloatError]
                    ELSE ReadChain(Tail(lines), chain_id,
                                   [acc EXCEPT !.coords = Append(@, line.coord[1]),
                                               !.masses = Append(@, mass)])

RECURSIVE SumSeq(_)
SumSeq(q) == IF q = <<>> THEN 0 ELSE Head(q) + SumSeq(Tail(q))

\* Sum of mass * coordinate k over the atoms.
Weighted(coords, masses, k) == SumSeq([i \in DOMAIN coords |-> masses[i] * coords[i][k]])

\* The empty check and the mass-weighted average: the center is returned as
\* the three weighted sums and the total mass they are divided by.
CenterOfMutNoCheck(coords, masses) ==
    Value(<<Weighted(coords, masses, 1), Weighted(coords, masses, 2),
            Weighted(coords, masses, 3), SumSeq(masses)>>)
CenterOf(coords, masses) ==
    IF coords = <<>> THEN Raised(EmptyError)
    ELSE Value(<<Weighted(coords, masses, 1), Weighted(coords, masses, 2),
                 Weighted(coords, masses, 3), SumSeq(masses)>>)

calculate_chain_center_of_mass(file, chain_id) ==
    IF ~file.exists THEN Raised("FileNotFoundError")
    ELSE LET read == ReadChain(file.lines, chain_id,
                               [error |-> "", coords |-> <<>>, masses |-> <<>>])
         IN IF read.error # "" THEN Raised(read.error)
            ELSE CenterOf(read.coords, read.masses)

CalculateStep ==
    \E chain_id \in Chains :
        /\ ret' = calculate_chain_center_of_mass(com_file, chain_id)
        /\ call' = [op |-> "calculate_chain_center_of_mass", chain |-> chain_id]
        /\ UNCHANGED <<agentvars, sysvars, runvars>>

InitCoM ==
    /\ com_file \in ComFiles
    /\ target = None /\ pdb_id = None /\ pdb_file_path = None
    /\ chain_info = <<>> /\ disk_text = <<>>
    /\ pc = "caller" /\ locals = NoLocals /\ last_response = <<>>
    /\ pdb_file = <<>> /\ structure = NotLoaded /\ interface_residues = <<>>
    /\ out_file = [written |-> FALSE, content |-> <<>>]
    /\ call = [op |-> "init"] /\ ret = NoValue
NextCoM == CalculateStep
SpecCoM == InitCoM /\ [][NextCoM]_vars

\* ==================================================== properties: contacts
AfterAnalyze == call.op = "analyze_interface"
Returned == SeqToSet(ret.val)
ChainsOf(s) == {s[i].chain : i \in DOMAIN s}
ResiduesOf(s, ch) == {r \in SeqToSet(s) : r.chain = ch}

\* Two residues have a pair of atoms at squared distance <= cutoff squared.
Near(r, q, c) ==
    /\ c >= 0
    /\ \E i \in DOMAIN r.atoms, j \in DOMAIN q.atoms :
          (r.atoms[i][1] - q.atoms[j][1]) * (r.atoms[i][1] - q.atoms[j][1])
        + (r.atoms[i][2] - q.atoms[j][2]) * (r.atoms[i][2] - q.atoms[j][2])
        + (r.atoms[i][3] - q.atoms[j][3]) * (r.atoms[i][3] - q.atoms[j][3]) <= c * c

\* Two residues own atoms at exactly the same position.
Coincide(r, q) == \E i \in DOMAIN r.atoms, j \in DOMAIN q.atoms : r.atoms[i] = q.atoms[j]

ContactKeys(s, A, B, c) ==
    {<<A, r.num>> : r \in {x \in ResiduesOf(s, A) : \E q \in ResiduesOf(s, B) : Near(x, q, c)}}
    \cup
    {<<B, q.num>> : q \in {x \in ResiduesOf(s, B) : \E r \in ResiduesOf(s, A) : Near(r, x, c)}}

CoincidentKeys(s, A, B) ==
    {<<A, r.num>> : r \in {x \in ResiduesOf(s, A) : \E q \in ResiduesOf(s, B) : Coincide(x, q)}}
    \cup
    {<<B, q.num>> : q \in {x \in ResiduesOf(s, B) : \E r \in ResiduesOf(s, A) : Coincide(r, x)}}

ExampleStructure ==
    <<[chain |-> "A", num |-> 1, resname |-> "ALA", atoms |-> <<P0>>],
      [chain |-> "B", num |-> 1, resname |-> "ALA", atoms |-> <<P1>>]>>

\* C1: find_contacts returns exactly the keys (A, r) and (B, r') of residues
\* with some pair of atoms at distance <= cutoff; a non-empty result for
\* A # B holds a key of each chain; the A:1 / B:1 example gives both keys at
\* cutoff 5 and nothing at cutoff 2.
C1_ContactsExact ==
    AfterAnalyze =>
        /\ Returned = ContactKeys(structure.residues, call.chain_a, call.chain_b, call.cutoff)
        /\ (call.chain_a # call.chain_b /\ Returned # {}) =>
               /\ \E k \in Returned : k[1] = call.chain_a
               /\ \E k \in Returned : k[1] = call.chain_b
        /\ (structure.residues = ExampleStructure /\ call.chain_a = "A" /\ call.chain_b = "B") =>
               /\ call.cutoff = 5 => Returned = {<<"A", 1>>, <<"B", 1>>}
               /\ call.cutoff = 2 => Returned = {}

\* A contact between distinct chains was found while another residue of the
\* queried chains stayed out of the result.
C1_Witness ==
    /\ AfterAnalyze
    /\ call.chain_a # call.chain_b
    /\ Returned # {}
    /\ \E r \in SeqToSet(structure.residues) :
          r.chain \in {call.chain_a, call.chain_b} /\ ResidueKey(r) \notin Returned

\* C2: find_contacts fails with a chain-not-found error when either
\* requested chain is absent from the structure.
C2_UnknownChainFails ==
    (AfterAnalyze /\ ~({call.chain_a, call.chain_b} \subseteq ChainsOf(structure.residues)))
        => ret.tag = "ChainNotFoundError"

\* C3: swapping the two chain arguments gives the same set of keys.
C3_SwapSymmetric ==
    AfterAnalyze =>
        Returned = find_contacts({}, structure.residues, call.chain_b, call.chain_a, call.cutoff)

C3_Witness ==
    AfterAnalyze /\ call.chain_a # call.chain_b /\ Cardinality(Returned) >= 3

\* C4: every key returned at a cutoff is also returned at any larger cutoff.
C4_MonotoneInCutoff ==
    AfterAnalyze =>
        \A c2 \in Cutoffs :
            call.cutoff < c2 =>
                Returned \subseteq find_contacts({}, structure.residues,
                                                call.chain_a, call.chain_b, c2)

\* A non-empty result that a larger cutoff strictly enlarges.
C4_Witness ==
    /\ AfterAnalyze
    /\ Returned # {}
    /\ \E c2 \in Cutoffs :
          /\ call.cutoff < c2
          /\ Returned # find_contacts({}, structure.residues, call.chain_a, call.chain_b, c2)

\* C5: with cutoff 0 the result is exactly the residues owning atoms of
\* chain A and chain B at the same position (empty when there are none).
C5_CutoffZero ==
    (AfterAnalyze /\ call.cutoff = 0) =>
        Returned = CoincidentKeys(structure.residues, call.chain_a, call.chain_b)

\* Cutoff 0 between distinct chains: a coincident pair found, another residue left out.
C5_Witness ==
    /\ AfterAnalyze
    /\ call.cutoff = 0
    /\ call.chain_a # call.chain_b
    /\ Returned # {}
    /\ \E r \in SeqToSet(structure.residues) :
          r.chain \in {call.chain_a, call.chain_b} /\ ResidueKey(r) \notin Returned

\* C6: a self-chain query on a present chain returns a result holding every
\* residue of that chain that has an atom, for any cutoff >= 0.
C6_SelfChain ==
    (/\ AfterAnalyze
     /\ call.chain_a = call.chain_b
     /\ call.chain_a \in ChainsOf(structure.residues)
     /\ call.cutoff >= 0) =>
        /\ ret.tag = "value"
        /\ \A r \in ResiduesOf(structure.residues, call.chain_a) :
              Len(r.atoms) >= 1 => ResidueKey(r) \in Returned

\* A self-chain query at cutoff 0 over two residues with no shared position.
C6_Witness ==
    /\ AfterAnalyze
    /\ call.chain_a = call.chain_b
    /\ call.cutoff = 0
    /\ \E r, q \in ResiduesOf(structure.residues, call.chain_a) : r # q /\ ~Coincide(r, q)

\* ======================================================= properties: agent
\* C7: with a non-empty interface result, save_interface_pdb completes and
\* writes exactly the interface residues with all their atoms, under their
\* chain identifiers and in structure order, also when every key lies in a
\* single chain.
C7_SaveWritesInterface ==
    (call.op = "save_interface_pdb" /\ interface_residues # <<>>) =>
        /\ ret.tag = "value"
        /\ out_file.written
        /\ out_file.content =
              SelectSeq(structure.residues,
                        LAMBDA r : ResidueKey(r) \in SeqToSet(interface_residues))

\* C8: analyze_interface returns and stores the contact set of the current
\* call as a duplicate-free list in increasing (chain, number) order.
C8_SortedInterface ==
    AfterAnalyze =>
        /\ ret.tag = "value"
        /\ ret.val = interface_residues
        /\ \A i, j \in DOMAIN interface_residues :
              i < j => \/ Ord(interface_residues[i][1]) < Ord(interface_residues[j][1])
                       \/ /\ interface_residues[i][1] = interface_residues[j][1]
                          /\ interface_residues[i][2] < interface_residues[j][2]
        /\ SeqToSet(interface_residues)
              = ContactKeys(structure.residues, call.chain_a, call.chain_b, call.cutoff)

\* An interface of at least three keys spread over both chains.
C8_Witness ==
    /\ AfterAnalyze
    /\ Len(interface_residues) >= 3
    /\ \E i, j \in DOMAIN interface_residues : interface_residues[i][1] # interface_residues[j][1]

NameAt(s, ch, n) == (CHOOSE r \in SeqToSet(s) : r.chain = ch /\ r.num = n).resname
SmallNames == {"ALA", "GLY", "SER"}
BasicNames == {"LYS", "ARG"}

ExpectedSuggestions(chain) ==
    LET keys == SelectSeq(interface_residues,
                          LAMBDA k : /\ k[1] = chain
                                     /\ NameAt(structure.residues, k[1], k[2])
                                            \in SmallNames \cup BasicNames)
    IN [i \in 1..Len(keys) |->
           LET name == NameAt(structure.residues, chain, keys[i][2])
           IN [chain |-> chain, position |-> keys[i][2], original |-> name,
               suggestion |-> IF name \in SmallNames THEN "TYR" ELSE "GLU"]]

\* C9: suggest_mutations(chain) returns, in interface order, one suggestion
\* per interface residue of the chain named ALA, GLY, SER (TYR) or LYS, ARG
\* (GLU), nothing for other residues, and an empty list when the chain has
\* no interface residue.
C9_Suggestions ==
    call.op = "suggest_mutations" =>
        /\ ret.tag = "value"
        /\ ret.val = ExpectedSuggestions(call.chain)
        /\ (\A i \in DOMAIN interface_residues : interface_residues[i][1] # call.chain)
              => ret.val = <<>>

\* A suggestion was made while another interface residue of the chain got none.
C9_Witness ==
    /\ call.op = "suggest_mutations"
    /\ Len(ret.val) >= 1
    /\ \E i \in DOMAIN interface_residues :
          /\ interface_residues[i][1] = call.chain
          /\ \A j \in DOMAIN ret.val : ret.val[j].position # interface_residues[i][2]

\* ====================================================== properties: system
\* Chain identifiers on at least one ATOM or HETATM record of a file.
ObservedChains(text) ==
    {text[i].chain : i \in {j \in DOMAIN text : text[j].tag \in {"ATOM", "HETATM"}}}

\* C10: after a successful download_pdb the key set of chain_info is exactly
\* the set of chains observed on ATOM/HETATM records of the downloaded file.
C10_ChainInfoKeys ==
    (call.op = "download_pdb" /\ ret.tag = "value")
        => DOMAIN chain_info = ObservedChains(disk_text)

\* ============================================== properties: center of mass
AfterCalculate == call.op = "calculate_chain_center_of_mass"
ChainAtomLines(chain_id) ==
    SelectSeq(com_file.lines, LAMBDA l : l.tag = "ATOM" /\ l.chain = chain_id)

\* The mass an atom record is to get: the table mass of its element (the
\* element field, or the first character of the atom name when that field
\* is blank) for H, C, N, O, P, S, and 12.011 otherwise.
StatedMass(line) ==
    LET element == IF line.element # "" THEN line.element ELSE FirstChar(line.name)
    IN IF Upper(element) \in {"H", "C", "N", "O", "P", "S"}
       THEN ATOMIC_MASSES(Upper(element)) ELSE 12011

\* C11: every atom record of the requested chain with parseable coordinates
\* gets its table mass or 12.011, and no content of the element and
\* atom-name fields makes the computation fail.
C11_MassNeverFails ==
    (/\ AfterCalculate
     /\ com_file.exists
     /\ ChainAtomLines(call.chain) # <<>>
     /\ \A i \in DOMAIN ChainAtomLines(call.chain) : ChainAtomLines(call.chain)[i].coord # <<>>)
        => /\ ret.tag = "value"
           /\ ret.val[4] = SumSeq([i \in DOMAIN ChainAtomLines(call.chain) |->
                                       StatedMass(ChainAtomLines(call.chain)[i])])
           /\ ret.val[4] > 0

\* C12: no value is returned over zero atoms: an existing file without an
\* atom of the requested chain gives the empty-set error, a missing file the
\* not-found error, and the two differ.
C12_EmptyChainFails ==
    AfterCalculate =>
        /\ ret.tag = "value" => ChainAtomLines(call.chain) # <<>>
        /\ (com_file.exists /\ ChainAtomLines(call.chain) = <<>>) => ret.tag = EmptyError
        /\ ~com_file.exists => (ret.tag = "FileNotFoundError" /\ ret.tag # EmptyError)

\* A readable file with atom records, none of the requested chain.
C12_Witness ==
    /\ AfterCalculate
    /\ com_file.exists
    /\ \E i \in DOMAIN com_file.lines : com_file.lines[i].tag = "ATOM"
    /\ ChainAtomLines(call.chain) = <<>>
    /\ ret.tag = EmptyError

\* ===================================================== properties: scripts
InScript == pc # "caller"

\* C13: in every run of a script, download_pdb is called only after
\* search_target returned a link, visualize_structure only after
\* download_pdb returned a path, visualize_mutation only after
\* suggest_mutations returned a non-empty list; whoever calls, download_pdb
\* without pdb_id and visualize_structure without pdb_file_path return a
\* failure value and do no request, file write or subprocess call; and
\* pdb_file_path is set only while pdb_id is set.
C13_StepsGated ==
    /\ (InScript /\ call.op = "download_pdb")
          => (locals.rcsb_link.tag = "value" /\ locals.rcsb_link.val = Link(pdb_id))
    /\ (InScript /\ call.op = "visualize_structure")
          => (locals.pdb_file.tag = "value" /\ locals.pdb_file.val = <<pdb_file_path>>
              /\ pdb_file_path # None)
    /\ (InScript /\ call.op = "visualize_mutation")
          => (locals.suggestions.tag = "value" /\ Len(locals.suggestions.val) > 0
              /\ call.mutation = locals.suggestions.val[1])
    /\ (call.op = "download_pdb" /\ pdb_id = None)
          => (ret = NoValue /\ call.io = {} /\ pdb_file_path = None)
    /\ (call.op = "visualize_structure" /\ pdb_file_path = None)
          => (ret = Value(<<FALSE>>) /\ call.io = {})
    /\ pdb_file_path # None => pdb_id # None

\* The main script has run to its last gated step on an id the agent found.
C13_Witness ==
    /\ InScript
    /\ call.op = "visualize_structure"
    /\ "subprocess" \in call.io
    /\ locals.rcsb_link.val = Link("2ABC")

\* ====================================================== properties: search
\* A word of four characters, the first a digit 1-9, the others letters or
\* digits.
IsFourCharId(t) ==
    /\ Len(TokenChars(t)) = 4
    /\ TokenChars(t)[1] \in Digits19
    /\ \A i \in 2..4 : TokenChars(t)[i] \in AlNum
\* The id a search is to assign: the first such word of the answer, else
\* 6VJA for the target CD20 in any case, else none.
ExpectedId(response, t) ==
    LET ids == SelectSeq(response, IsFourCharId)
    IN IF ids # <<>> THEN <<Head(ids)>>
       ELSE IF t \in {"CD20", "cd20"} THEN <<"6VJA">>
       ELSE <<>>

\* C14: search_target returns a link exactly when it assigns pdb_id in that
\* call, to the first four-character id of the answer or else to 6VJA for
\* CD20; when it returns None, pdb_id, pdb_file_path and chain_info stay as
\* they were, and the next download_pdb requests the id that pdb_id held.
C14_SearchFrame ==
    [][/\ call'.op = "search_target" =>
            LET expected == ExpectedId(last_response', target)
            IN /\ ret'.tag = "value" =>
                     /\ expected # <<>>
                     /\ pdb_id' = expected[1]
                     /\ ret'.val = Link(expected[1])
               /\ ret'.tag # "value" => pdb_id' = pdb_id
               /\ ret' = NoValue =>
                     /\ expected = <<>>
                     /\ UNCHANGED <<pdb_id, pdb_file_path, chain_info>>
       /\ (call'.op = "download_pdb" /\ pdb_id # None) =>
            (call'.url = Url(pdb_id) /\ pdb_id' = pdb_id)]_vars

\* A search that found nothing, after a search and a download that succeeded.
C14_Witness ==
    /\ call.op = "search_target"
    /\ ret = NoValue
    /\ last_response # <<>>
    /\ pdb_id = "2ABC"
    /\ pdb_file_path = PathOf("2ABC")
====
